---- MODULE Spec2Model ----
(***************************************************************************)
(* A model of the BlueZ Peripheral session of btleplug                     *)
(* (src/src/bluez/adapter/peripheral.rs): the Connection slot `stream`     *)
(* behind its RwLock, the connection-complete handoff channel, the replay  *)
(* queue of early data packets, connect()/disconnect(), the event intake   *)
(* handle_device_message, the requests that need a Connection, the         *)
(* completion handlers of discovery and subscription, and the steps of the *)
(* application threads and the event-delivery thread at the slot's lock.   *)
(***************************************************************************)
EXTENDS Integers, Sequences, FiniteSets, TLC

\* ------------------------------------------------------------------ bounds
MaxPackets == 3      \* data packets delivered by the dispatcher
MaxSockets == 1      \* sockets connect() may open
MaxConnEvents == 1   \* connection-complete events waiting in the channel
MaxPdus == 3         \* PDUs handed to the Transaction Engine
MaxReports == 2      \* advertising reports delivered by the dispatcher
PageSize == 2        \* declarations the peripheral fits into one response
MaxRunPackets == 6   \* data packets delivered while discovery runs twice
MaxRunPdus == 6      \* PDUs handed to the Transaction Engine by two runs

\* application threads sharing one (cloned) Peripheral
Threads == {1, 2}
\* connection handles the controller assigns / data packets carry
Handles == {1, 2}

VARIABLES
    pc,               \* per application thread: position inside connect()/disconnect()
    fd,               \* per thread: the local `fd` of a connect() in progress (0: none)
    stream,           \* Arc<RwLock<Option<ACLStream>>>: the Connection slot
    connection_chan,  \* connection_tx / connection_rx: handles in the channel
    backlog,          \* events already in the channel when the connect() in
                      \* progress issued its socket connect (0: none in progress)
    open_fds,         \* socket descriptors currently open in the process
    sockets,          \* number of sockets created so far (the next fd is sockets + 1)
    scan_restarts,    \* number of c_adapter.start_scan() calls made by connect()
    cmds,             \* number of disconnect commands written to the adapter
    last_ret,         \* the last API call that returned: operation, value, repeated?
    message_queue,    \* Arc<Mutex<VecDeque<ACLData>>>
    arrivals,         \* number of data packets handle_device_message has received
    delivered,        \* the stream.receive() calls made, in order
    evt,              \* the event-delivery thread: where it is, and the data
                      \* packet it is handling
    pdus,             \* the PDUs handed to stream.write / stream.write_cmd, in order
    pending,          \* the completion handlers the Connection holds, oldest first
    characteristics,  \* Arc<Mutex<BTreeSet<Characteristic>>>
    disc_end,         \* `end` of the latest discovery an application asked for
    properties,       \* Arc<Mutex<Properties>>
    reports           \* the advertising reports processed so far, in order

sessVars == <<pc, fd, stream, connection_chan, backlog, open_fds, sockets,
              scan_restarts, cmds, last_ret>>
dataVars == <<message_queue, arrivals, delivered, evt>>
gattVars == <<pdus, pending, characteristics, disc_end>>
advVars == <<properties, reports>>

vars == <<sessVars, dataVars, gattVars, advVars>>

\* ------------------------------------------------------------ the slot
None == [some |-> FALSE, handle |-> 0, fd |-> 0]

\* ACLStream::new(self.address, handle, fd)
ACLStream_new(handle, f) == [some |-> TRUE, handle |-> handle, fd |-> f]

\* dropping the ACLStream releases its socket
ACLStream_drop(fds, s) == fds \ {s.fd}

\* a thread holds the write guard of `stream` from stream.write() until the
\* call returns; a thread that panicked while holding it leaves it poisoned
WritePcs == {"connect_locked", "connect_wait", "disconnect_locked", "panicked"}

WriteLocked_Never == FALSE

WriteLocked == \E t \in Threads : pc[t] \in WritePcs

\* self.stream.try_read(): Err while write-locked (or poisoned)
try_read_ok == ~WriteLocked

\* the event-delivery thread holds a read guard of `stream` while it is inside
\* the Ok arm of try_read()
ReadHeld == evt.st \in {"reading", "blocked"}

\* a thread has called self.stream.write() and waits for the guard
WriterWaiting == \E t \in Threads : pc[t] \in {"connect_call", "disconnect_call"}

Ret(op, val) ==
    [op |-> op, val |-> val, rep |-> (last_ret.op = op /\ last_ret.val = "Ok")]

\* ------------------------------------------------------------ is_connected
\* fn is_connected(&self) -> bool
is_connected == TRUE

IsConnected(t) ==
    /\ pc[t] = "idle"
    /\ last_ret' = Ret("is_connected", IF is_connected THEN "true" ELSE "false")
    /\ UNCHANGED <<pc, fd, stream, connection_chan, backlog, open_fds, sockets,
                   scan_restarts, cmds>>
    /\ UNCHANGED <<dataVars, gattVars, advVars>>

\* ------------------------------------------------------------ connect()
AlreadyConnected_Never(s) == FALSE

\* `if stream.is_some()`
AlreadyConnected(s) == s.some

\* let mut stream = self.stream.write().unwrap();
ConnectBegin(t) ==
    /\ pc[t] = "idle"
    /\ ~WriteLocked /\ ~ReadHeld
    /\ stream.some \/ sockets < MaxSockets
    /\ pc' = [pc EXCEPT ![t] = "connect_locked"]
    /\ UNCHANGED <<fd, stream, connection_chan, backlog, open_fds, sockets,
                   scan_restarts, cmds, last_ret>>
    /\ UNCHANGED <<dataVars, gattVars, advVars>>

\* we're already connected, just return
ConnectReturn(t) ==
    /\ pc[t] = "connect_locked"
    /\ AlreadyConnected(stream)
    /\ pc' = [pc EXCEPT ![t] = "idle"]
    /\ last_ret' = Ret("connect", "Ok")
    /\ UNCHANGED <<fd, stream, connection_chan, backlog, open_fds, sockets,
                   scan_restarts, cmds>>
    /\ UNCHANGED <<dataVars, gattVars, advVars>>

\* the outcomes of socket(), bind()/setsockopt(), connect(), of the load of
\* c_adapter.scan_enabled and of start_scan(): "ok" is a setup that found the
\* scan disabled, "ok_scan" one that found it enabled and restarted it
SetupOutcomes ==
    {"socket_err", "setup_err", "connect_panic", "scan_err", "ok", "ok_scan"}

SetupOk == {"ok", "ok_scan"}

\* socket, bind, setsockopt, connect, restart of the scan
ConnectSocket(t, outcome) ==
    /\ pc[t] = "connect_locked"
    /\ ~AlreadyConnected(stream)
    /\ LET newfd == sockets + 1 IN
        /\ IF outcome = "socket_err"
           THEN UNCHANGED <<sockets, open_fds, fd>>
           ELSE /\ sockets' = newfd
                /\ open_fds' = open_fds \cup {newfd}
                /\ fd' = [fd EXCEPT ![t] = IF outcome \in SetupOk THEN newfd ELSE 0]
        /\ scan_restarts' = IF outcome = "ok_scan"
                            THEN scan_restarts + 1 ELSE scan_restarts
        /\ pc' = [pc EXCEPT ![t] =
                    CASE outcome \in SetupOk -> "connect_wait"
                      [] outcome = "connect_panic" -> "panicked"
                      [] OTHER -> "idle"]
        /\ last_ret' = IF outcome \in SetupOk \cup {"connect_panic"} THEN last_ret
                       ELSE Ret("connect", "SysErr")
        /\ backlog' = IF outcome \in SetupOk THEN Len(connection_chan) ELSE backlog
    /\ UNCHANGED <<stream, connection_chan, cmds>>
    /\ UNCHANGED <<dataVars, advVars, pdus, pending, characteristics, disc_end>>

recv_timeout_Default(chan) ==
    IF chan # <<>> THEN [ok |-> TRUE, handle |-> Head(chan)]
    ELSE [ok |-> TRUE, handle |-> 0]

\* self.connection_rx.lock().unwrap().recv_timeout(timeout)
recv_timeout(chan) ==
    IF chan # <<>> THEN [ok |-> TRUE, handle |-> Head(chan)]
    ELSE [ok |-> FALSE, handle |-> 0]

\* wait until we get the connection notice
ConnectWait(t) ==
    /\ pc[t] = "connect_wait"
    /\ LET r == recv_timeout(connection_chan) IN
        /\ stream' = IF r.ok THEN ACLStream_new(r.handle, fd[t]) ELSE stream
        /\ pending' = IF r.ok THEN <<>> ELSE pending
        /\ connection_chan' = IF connection_chan # <<>> THEN Tail(connection_chan)
                              ELSE connection_chan
        /\ last_ret' = Ret("connect", IF r.ok THEN "Ok" ELSE "TimedOut")
    /\ pc' = [pc EXCEPT ![t] = "idle"]
    /\ fd' = [fd EXCEPT ![t] = 0]
    /\ backlog' = 0
    /\ UNCHANGED <<open_fds, sockets, scan_restarts, cmds>>
    /\ UNCHANGED <<dataVars, advVars, pdus, characteristics, disc_end>>

\* ------------------------------------------------------------ disconnect()
AlreadyDisconnected_Never(s) == FALSE

\* `if l.is_none()`
AlreadyDisconnected(s) == ~s.some

\* let mut l = self.stream.write().unwrap();
DisconnectBegin(t) ==
    /\ pc[t] = "idle"
    /\ ~WriteLocked /\ ~ReadHeld
    /\ pc' = [pc EXCEPT ![t] = "disconnect_locked"]
    /\ UNCHANGED <<fd, stream, connection_chan, backlog, open_fds, sockets,
                   scan_restarts, cmds, last_ret>>
    /\ UNCHANGED <<dataVars, gattVars, advVars>>

c_adapter_write_Ignored(written) == "Ok"

\* self.c_adapter.write(&mut *buf): Ok, or the adapter's error
c_adapter_write(written) == IF written THEN "Ok" ELSE "SysErr"

\* the rest of disconnect(): the early return, or the command and `*l = None`
\* written: whether the adapter wrote the command
DisconnectBody(t, written) ==
    /\ pc[t] = "disconnect_locked"
    /\ pc' = [pc EXCEPT ![t] = "idle"]
    /\ IF AlreadyDisconnected(stream)
       THEN /\ last_ret' = Ret("disconnect", "Ok")
            /\ UNCHANGED <<stream, cmds, open_fds, pending>>
       ELSE IF c_adapter_write(written) = "Ok"
            THEN /\ cmds' = cmds + 1
                 /\ stream' = None
                 /\ pending' = <<>>
                 /\ open_fds' = ACLStream_drop(open_fds, stream)
                 /\ last_ret' = Ret("disconnect", "Ok")
            ELSE /\ last_ret' = Ret("disconnect", "SysErr")
                 /\ UNCHANGED <<stream, cmds, open_fds, pending>>
    /\ UNCHANGED <<fd, connection_chan, backlog, sockets, scan_restarts>>
    /\ UNCHANGED <<dataVars, advVars, pdus, characteristics, disc_end>>

\* ------------------------------------------------------------ event intake
\* &hci::Message::LEConnComplete
HandleConnComplete(h) ==
    /\ evt.st = "running"
    /\ Len(connection_chan) < MaxConnEvents
    /\ connection_chan' = Append(connection_chan, h)
    /\ UNCHANGED <<pc, fd, stream, backlog, open_fds, sockets,
                   scan_restarts, cmds, last_ret>>
    /\ UNCHANGED <<dataVars, gattVars, advVars>>

\* ------------------------------------------------------------ GATT state
\* `let mut prev = 0xffff;`
MaxHandle == 65535

\* the state the requests and the completion handlers work on; `panic`: a
\* handler panicked (an unwrap() of an Err) and took its thread with it
Gatt == [pdus |-> pdus, pending |-> pending, characteristics |-> characteristics,
         panic |-> FALSE]

\* Result::unwrap() on an Err
Panic(g) == [g EXCEPT !.panic = TRUE]

Pdu(op, handle, end, uuid, value) ==
    [op |-> op, handle |-> handle, end |-> end, uuid |-> uuid, value |-> value]

NoChar == [start_handle |-> 0, end_handle |-> 0, value_handle |-> 0, properties |-> {}]

\* a completion handler with what its closure captured; `start` is the start
\* of the range its request asked the peripheral for
Handler(kind, start, end, enable, c) ==
    [kind |-> kind, start |-> start, end |-> end, enable |-> enable, char |-> c]

\* ACLStream::write(pdu, handler): the engine transmits the PDU and holds the handler
ACLStream_write(g, pdu, handler) ==
    [g EXCEPT !.pdus = Append(@, pdu), !.pending = Append(@, handler)]

\* ACLStream::write_cmd(pdu, handler): transmits; the handler gets the send result
ACLStream_write_cmd(g, pdu) == [g EXCEPT !.pdus = Append(@, pdu)]

request_by_handle_Unchecked(s, g, handle, value, handler) ==
    [ret |-> "Ok",
     g |-> ACLStream_write(g, Pdu("WRITE_REQ", handle, 0, "", value), handler)]

\* fn request_by_handle(&self, handle, data, handler)
request_by_handle(s, g, handle, value, handler) ==
    IF ~s.some THEN [ret |-> "NotConnected", g |-> g]
    ELSE [ret |-> "Ok",
          g |-> ACLStream_write(g, Pdu("WRITE_REQ", handle, 0, "", value), handler)]

\* fn write_acl_packet(&self, data, handler)
write_acl_packet(s, g, pdu, handler) ==
    IF ~s.some THEN [ret |-> "NotConnected", g |-> g]
    ELSE [ret |-> "Ok", g |-> ACLStream_write(g, pdu, handler)]

\* fn notify(&self, characteristic, enable): the descriptor read and its handler
notify(s, g, c, enable) ==
    IF ~s.some THEN [ret |-> "NotConnected", g |-> g]
    ELSE [ret |-> "Ok",
          g |-> ACLStream_write(g,
                    Pdu("READ_BY_TYPE_REQ", c.start_handle, c.end_handle,
                        "CLIENT_CHARAC_CFG", 0),
                    Handler("notify", c.start_handle, c.end_handle, enable, c))]

\* fn discover_characteristics_in_range(&self, start, end): the request
discover_characteristics_in_range(s, g, start, end) ==
    write_acl_packet(s, g, Pdu("READ_BY_TYPE_REQ", start, end, "CHARAC", 0),
                     Handler("disc", start, end, FALSE, NoChar))

\* fn command_async(&self, characteristic, data, handler) with Some(done) as
\* the handler: what the handler is invoked with ("none": it is not invoked)
command_async(s, g, c, value, sent) ==
    IF s.some
    THEN [done |-> IF sent THEN "Ok" ELSE "SysErr",
          g |-> ACLStream_write_cmd(g, Pdu("WRITE_CMD", c.value_handle, 0, "", value))]
    ELSE [done |-> "NotConnected", g |-> g]

\* ------------------------------------------------------------ the peripheral
\* the characteristic declarations the remote peripheral exposes
Declarations ==
    { [start_handle |-> 16, value_handle |-> 17, properties |-> {"NOTIFY"}],
      [start_handle |-> 32, value_handle |-> 33, properties |-> {"INDICATE"}],
      [start_handle |-> 48, value_handle |-> 49, properties |-> {"NOTIFY", "INDICATE"}] }

\* the first n declarations of S in ascending handle order
RECURSIVE FirstDecls(_, _)
FirstDecls(S, n) ==
    IF S = {} \/ n = 0 THEN <<>>
    ELSE LET m == CHOOSE d \in S : \A e \in S : d.start_handle <= e.start_handle
         IN <<m>> \o FirstDecls(S \ {m}, n - 1)

\* att::characteristics(data) of the peripheral's answer to a read-by-type
\* request over [start, end]: one page of declarations; <<>> stands for the
\* error response (no attribute in the range), which to_result() turns into Err
ReadByTypeResponse(start, end) ==
    FirstDecls({d \in Declarations : start <= d.start_handle /\ d.start_handle <= end},
               PageSize)

\* ------------------------------------------------------------ the handlers
\* the BTreeSet's greatest element (Characteristic orders by its handles)
MaxChar(S) ==
    CHOOSE c \in S : \A e \in S :
        \/ e.start_handle < c.start_handle
        \/ e.start_handle = c.start_handle /\ e.end_handle <= c.end_handle

\* char_set.into_iter().rev().map(|mut c| { c.end_handle = prev;
\*     prev = c.start_handle - 1; c }).collect()
RECURSIVE FixEndHandles(_, _)
FixEndHandles(S, prev) ==
    IF S = {} THEN {}
    ELSE LET c == MaxChar(S) IN
         {[c EXCEPT !.end_handle = prev]}
            \cup FixEndHandles(S \ {c}, (c.start_handle - 1) % (MaxHandle + 1))

\* the handler of discover_characteristics_in_range(start, end), invoked with
\* msg: `data.unwrap()` panics on an error result; a response that does not
\* parse as a list of declarations is logged
DiscoveryHandler(s, g, start, end, msg) ==
    LET chars == IF msg.kind = "malformed" THEN <<>>
                 ELSE ReadByTypeResponse(start, end)
        char_set == g.characteristics \cup
            { [start_handle |-> chars[i].start_handle, end_handle |-> end,
               value_handle |-> chars[i].value_handle,
               properties |-> chars[i].properties] : i \in 1..Len(chars) }
        g1 == [g EXCEPT !.characteristics = FixEndHandles(char_set, MaxHandle)]
    IN  IF msg.kind = "socket_error" THEN Panic(g)
        ELSE IF chars = <<>> THEN g
        ELSE LET next == chars[Len(chars)].start_handle IN
             IF next < end
             THEN LET r == discover_characteristics_in_range(s, g1, next + 1, end)
                  IN IF r.ret = "Ok" THEN r.g ELSE Panic(g1)
             ELSE g1

\* value |= 0x0001 / 0x0002, value &= 0xFFFE / 0xFFFD on a u16
SetBit(v, b) == IF (v \div b) % 2 = 1 THEN v ELSE v + b
ClearBit(v, b) == IF (v \div b) % 2 = 1 THEN v - b ELSE v

NotifyValue_IndicateFirst(value, props, enable) ==
    IF enable
    THEN IF "INDICATE" \in props THEN SetBit(value, 2)
         ELSE IF "NOTIFY" \in props THEN SetBit(value, 1)
         ELSE value
    ELSE IF "INDICATE" \in props THEN ClearBit(value, 2)
         ELSE IF "NOTIFY" \in props THEN ClearBit(value, 1)
         ELSE value

\* `if enable { if use_notify { value |= 0x0001 } else if use_indicate { ... } }
\*  else { if use_notify { value &= 0xFFFE } else if use_indicate { ... } }`
NotifyValue(value, props, enable) ==
    IF enable
    THEN IF "NOTIFY" \in props THEN SetBit(value, 1)
         ELSE IF "INDICATE" \in props THEN SetBit(value, 2)
         ELSE value
    ELSE IF "NOTIFY" \in props THEN ClearBit(value, 1)
         ELSE IF "INDICATE" \in props THEN ClearBit(value, 2)
         ELSE value

\* the handler of notify(), invoked with msg: an error result and a response
\* that does not parse are logged; else the write-back of the changed value to
\* resp.handle, whose result is unwrapped
NotifyHandler(s, g, h, msg) ==
    IF msg.kind \in {"socket_error", "malformed"} THEN g
    ELSE LET r == request_by_handle(s, g, msg.attr,
                      NotifyValue(msg.value, h.char.properties, h.enable),
                      Handler("notify_write", 0, 0, FALSE, NoChar))
         IN IF r.ret = "Ok" THEN r.g ELSE Panic(g)

\* the handler of the write-back: `data.unwrap()`, then a log line
NotifyWriteHandler(g, msg) ==
    IF msg.kind = "socket_error" THEN Panic(g) ELSE g

\* what completes a request: the peripheral's response, a response PDU that
\* does not parse, or a hard socket error the engine reports to the handler
Completions == {"response", "malformed", "socket_error"}

\* ACLStream::receive(msg): a completion fires the handler of the oldest
\* pending request, synchronously
ACLStream_receive(s, g, msg) ==
    IF msg.kind \in Completions /\ g.pending # <<>>
    THEN LET h == Head(g.pending)
             g0 == [g EXCEPT !.pending = Tail(@)]
         IN CASE h.kind = "disc" -> DiscoveryHandler(s, g0, h.start, h.end, msg)
              [] h.kind = "notify" -> NotifyHandler(s, g0, h, msg)
              [] h.kind = "notify_write" -> NotifyWriteHandler(g0, msg)
              [] OTHER -> g0
    ELSE g

\* ------------------------------------------------------------ data packets
push_back_Dropped(q, p) == q

\* queue.push_back(data.clone())
push_back(q, p) == Append(q, p)

\* while !queue.is_empty() { let msg = queue.pop_back().unwrap(); ... }:
\* the messages in the order the loop visits them
RECURSIVE DrainOrder(_)
DrainOrder(q) ==
    IF q = <<>> THEN <<>>
    ELSE <<q[Len(q)]>> \o DrainOrder(SubSeq(q, 1, Len(q) - 1))

HandleMatches_Any(s, msg) == TRUE

\* `stream.handle == msg.handle` / `stream.handle == handle`
HandleMatches(s, msg) == s.handle = msg.handle

\* `if stream.handle == msg.handle { stream.receive(&msg); }` for each message
\* in turn, until a handler panics; st is the receive log and the state the
\* handlers work on
RECURSIVE Receive(_, _, _)
Receive(s, st, msgs) ==
    IF msgs = <<>> \/ st.g.panic THEN st
    ELSE LET msg == Head(msgs) IN
         Receive(s,
                 IF HandleMatches(s, msg)
                 THEN [log |-> Append(st.log, [id |-> msg.id, handle |-> msg.handle,
                                               conn |-> s.handle]),
                       g |-> ACLStream_receive(s, st.g, msg)]
                 ELSE st,
                 Tail(msgs))

Connecting == \E t \in Threads : pc[t] \in {"connect_locked", "connect_wait"}

\* the payloads of a data packet: a notification, or the peripheral's response
\* to the oldest outstanding request (attr, value: the descriptor handle and
\* the descriptor value it reports), or another completion of that request.
\* A packet also carries its arrival number `id` and whether it arrived while
\* there was no Connection and no connection-complete event in the channel
\* (`pre`); the code reads neither.
Notification == [kind |-> "notification", value |-> 0, attr |-> 0]
Response(v) == [kind |-> "response", value |-> v, attr |-> 0]
ConfigResponse(a, v) == [kind |-> "response", value |-> v, attr |-> a]
Failure(k) == [kind |-> k, value |-> 0, attr |-> 0]

\* the packet built from a payload on arrival
Packet(h, payload) ==
    [id |-> arrivals + 1, handle |-> h, kind |-> payload.kind,
     value |-> payload.value, attr |-> payload.attr,
     pre |-> ~stream.some /\ connection_chan = <<>>]

\* no packet
NoData == [id |-> 0, handle |-> 0, kind |-> "none", value |-> 0, attr |-> 0,
           pre |-> FALSE]

\* the event-delivery thread after the handlers ran
AfterHandlers(g) ==
    IF g.panic THEN [st |-> "panicked", data |-> NoData]
    ELSE [st |-> "running", data |-> NoData]

\* &hci::Message::ACLDataPacket, for at most np packets and nd PDUs; a handler
\* that panics ends the thread inside the replay loop, and what the loop had
\* not yet popped is never read again
DataPacket(h, payload, np, nd) ==
    /\ evt.st = "running"
    /\ arrivals < np
    /\ arrivals' = arrivals + 1
    /\ LET data == Packet(h, payload) IN
        /\ IF try_read_ok
           THEN IF stream.some
                THEN LET st == Receive(stream, [log |-> delivered, g |-> Gatt],
                                       DrainOrder(message_queue) \o <<data>>)
                     IN /\ Len(st.g.pdus) <= nd
                        /\ delivered' = st.log
                        /\ pdus' = st.g.pdus
                        /\ pending' = st.g.pending
                        /\ characteristics' = st.g.characteristics
                        /\ message_queue' = <<>>
                        /\ evt' = AfterHandlers(st.g)
                ELSE UNCHANGED <<delivered, message_queue, pdus, pending,
                                 characteristics, evt>>
           ELSE /\ message_queue' = push_back(message_queue, data)
                /\ UNCHANGED <<delivered, pdus, pending, characteristics, evt>>
    /\ UNCHANGED <<sessVars, advVars, disc_end>>

HandleACLData(h, payload) == DataPacket(h, payload, MaxPackets, MaxPdus)

\* ------------------------------------------------------------ lock steps
\* connect() / disconnect() up to self.stream.write(): the call is made and
\* waits for the write guard; op is "connect_call" or "disconnect_call"
WriteCall(t, op) ==
    /\ pc[t] = "idle"
    /\ op = "connect_call" => (stream.some \/ sockets < MaxSockets)
    /\ pc' = [pc EXCEPT ![t] = op]
    /\ UNCHANGED <<fd, stream, connection_chan, backlog, open_fds, sockets,
                   scan_restarts, cmds, last_ret>>
    /\ UNCHANGED <<dataVars, gattVars, advVars>>

\* self.stream.write() returns the guard: no writer and no reader holds one
WriteAcquire(t) ==
    /\ pc[t] \in {"connect_call", "disconnect_call"}
    /\ ~WriteLocked /\ ~ReadHeld
    /\ pc' = [pc EXCEPT ![t] = IF pc[t] = "connect_call" THEN "connect_locked"
                                ELSE "disconnect_locked"]
    /\ UNCHANGED <<fd, stream, connection_chan, backlog, open_fds, sockets,
                   scan_restarts, cmds, last_ret>>
    /\ UNCHANGED <<dataVars, gattVars, advVars>>

\* the RwLock's policy towards a read requested while a writer waits:
\* writers_first makes the read wait (try_read: fail), else it is granted
ReadGranted(writers_first) == ~WriteLocked /\ ~(writers_first /\ WriterWaiting)

\* &hci::Message::ACLDataPacket up to `match self.stream.try_read()`: the Ok
\* arm is entered with the read guard, or the Err arm queues the packet
TryRead(h, payload, writers_first) ==
    /\ evt.st = "running"
    /\ arrivals < MaxPackets
    /\ arrivals' = arrivals + 1
    /\ IF ReadGranted(writers_first)
       THEN /\ evt' = [st |-> "reading", data |-> Packet(h, payload)]
            /\ UNCHANGED message_queue
       ELSE /\ message_queue' = push_back(message_queue, Packet(h, payload))
            /\ UNCHANGED evt
    /\ UNCHANGED <<sessVars, gattVars, advVars, delivered>>

\* the Ok arm: the replay and the receive under the read guard. A handler
\* that issues a follow-up request calls self.stream.read() on this thread;
\* if that read is not granted the thread waits inside it for the writer,
\* which waits for this thread's guard
Deliver(writers_first) ==
    /\ evt.st = "reading"
    /\ LET st == Receive(stream, [log |-> delivered, g |-> Gatt],
                         DrainOrder(message_queue) \o <<evt.data>>)
           follow_up == Len(st.g.pdus) > Len(pdus)
       IN IF ~stream.some
          THEN /\ evt' = [st |-> "running", data |-> NoData]
               /\ UNCHANGED <<delivered, message_queue, gattVars>>
          ELSE IF follow_up /\ ~ReadGranted(writers_first)
          THEN /\ evt' = [evt EXCEPT !.st = "blocked"]
               /\ UNCHANGED <<delivered, message_queue, gattVars>>
          ELSE /\ Len(st.g.pdus) <= MaxPdus
               /\ delivered' = st.log
               /\ pdus' = st.g.pdus
               /\ pending' = st.g.pending
               /\ characteristics' = st.g.characteristics
               /\ message_queue' = <<>>
               /\ evt' = AfterHandlers(st.g)
               /\ UNCHANGED disc_end
    /\ UNCHANGED <<sessVars, advVars, arrivals>>

\* ------------------------------------------------------------ requests
\* the characteristics an application passes to the calls below
ApiChars ==
    FixEndHandles({ [start_handle |-> d.start_handle, end_handle |-> MaxHandle,
                     value_handle |-> d.value_handle, properties |-> d.properties]
                    : d \in Declarations }, MaxHandle)

OneChar == {c \in ApiChars : c.start_handle = 16}

\* a characteristic with neither NOTIFY nor INDICATE
PlainChar == [start_handle |-> 64, end_handle |-> 79, value_handle |-> 65,
              properties |-> {}]

\* the characteristics an application subscribes to and unsubscribes from
SubChars == ApiChars \cup {PlainChar}

\* the descriptor handles and the 2-byte descriptor values (0x0000, 0x0003,
\* 0xFFFC) the peripheral reports in a client-configuration response
DescHandles == {18, 35}
DescValues == {0, 3, 65532}

\* the ranges an application asks discover_characteristics_in_range for
DiscRanges == {<<1, 32>>, <<1, 40>>, <<17, MaxHandle>>}

\* a call that takes self.stream.read(), applies op and returns its result,
\* for at most nd PDUs
CallN(t, name, r, nd) ==
    /\ pc[t] = "idle"
    /\ ~WriteLocked
    /\ Len(r.g.pdus) <= nd
    /\ last_ret' = Ret(name, r.ret)
    /\ pdus' = r.g.pdus
    /\ pending' = r.g.pending
    /\ characteristics' = r.g.characteristics
    /\ UNCHANGED <<pc, fd, stream, connection_chan, backlog, open_fds, sockets,
                   scan_restarts, cmds>>
    /\ UNCHANGED <<dataVars, advVars>>

Call(t, name, r) == CallN(t, name, r, MaxPdus)

\* fn request(&self, characteristic, data, handler)
Request(t, c) ==
    /\ Call(t, "request",
            request_by_handle(stream, Gatt, c.value_handle, 1,
                              Handler("app", 0, 0, FALSE, NoChar)))
    /\ UNCHANGED disc_end

\* fn subscribe(&self, characteristic)
Subscribe(t, c) ==
    /\ Call(t, "subscribe", notify(stream, Gatt, c, TRUE))
    /\ UNCHANGED disc_end

\* fn unsubscribe(&self, characteristic)
Unsubscribe(t, c) ==
    /\ Call(t, "unsubscribe", notify(stream, Gatt, c, FALSE))
    /\ UNCHANGED disc_end

\* fn discover_characteristics(&self), for at most nd PDUs
DiscoverCharacteristicsN(t, nd) ==
    /\ CallN(t, "discover_characteristics",
             discover_characteristics_in_range(stream, Gatt, 1, MaxHandle), nd)
    /\ disc_end' = IF stream.some THEN MaxHandle ELSE disc_end

DiscoverCharacteristics(t) == DiscoverCharacteristicsN(t, MaxPdus)

\* fn discover_characteristics_in_range(&self, start, end)
DiscoverInRange(t, start, end) ==
    /\ Call(t, "discover_characteristics_in_range",
            discover_characteristics_in_range(stream, Gatt, start, end))
    /\ disc_end' = IF stream.some THEN end ELSE disc_end

\* wait_until_done: returns what the handler was invoked with; "none": it
\* was not invoked and the caller waits
\* fn command(&self, characteristic, data)
Command(t, c, sent) ==
    LET r == command_async(stream, Gatt, c, 1, sent) IN
        /\ pc[t] = "idle"
        /\ ~WriteLocked
        /\ Len(r.g.pdus) <= MaxPdus
        /\ IF r.done = "none"
           THEN /\ pc' = [pc EXCEPT ![t] = "command_wait"]
                /\ UNCHANGED last_ret
           ELSE /\ last_ret' = Ret("command", r.done)
                /\ UNCHANGED pc
        /\ pdus' = r.g.pdus
        /\ UNCHANGED <<fd, stream, connection_chan, backlog, open_fds, sockets,
                       scan_restarts, cmds>>
        /\ UNCHANGED <<dataVars, advVars, pending, characteristics, disc_end>>

\* ------------------------------------------------------------ advertising
\* Option<T> as a sequence of at most one value
NoneOpt == <<>>
SomeOpt(v) == <<v>>

\* the typed fields of an advertising report (values stand for their payloads)
AdvDatum ==
    { [t |-> "LocalName", v |-> 1], [t |-> "LocalName", v |-> 2],
      [t |-> "TxPowerLevel", v |-> 7], [t |-> "ManufacturerSpecific", v |-> 9],
      [t |-> "ServiceData", v |-> 0] }

\* info.data: no field, one field, or a local name followed by a second field
AdvData == {<<>>} \cup {<<a>> : a \in AdvDatum}
               \cup {<<a, b>> : a \in {d \in AdvDatum : d.t = "LocalName"},
                                b \in AdvDatum}

\* `for datum in info.data.iter() { match datum { ... } }`
RECURSIVE ApplyData(_, _)
ApplyData(p, data) ==
    IF data = <<>> THEN p
    ELSE LET d == Head(data) IN
         ApplyData(CASE d.t = "LocalName" -> [p EXCEPT !.local_name = SomeOpt(d.v)]
                     [] d.t = "TxPowerLevel" -> [p EXCEPT !.tx_power_level = SomeOpt(d.v)]
                     [] d.t = "ManufacturerSpecific" ->
                            [p EXCEPT !.manufacturer_data = SomeOpt(d.v)]
                     [] OTHER -> p,
                   Tail(data))

MergeReport_Rollback(p, info) ==
    ApplyData([p EXCEPT !.discovery_count = @ + 1,
                        !.address_type = IF info.bdaddr_type = 1 THEN "Random"
                                         ELSE "Public",
                        !.has_scan_response = (info.evt_type = 4),
                        !.local_name = NoneOpt],
              info.data)

\* the merge of one advertising report into Properties
MergeReport(p, info) ==
    ApplyData([p EXCEPT !.discovery_count = @ + 1,
                        !.address_type = IF info.bdaddr_type = 1 THEN "Random"
                                         ELSE "Public",
                        !.has_scan_response = IF info.evt_type = 4 THEN TRUE ELSE @],
              info.data)

\* &hci::Message::LEAdvertisingReport
HandleAdvertisingReport(info) ==
    /\ evt.st = "running"
    /\ Len(reports) < MaxReports
    /\ properties' = MergeReport(properties, info)
    /\ reports' = Append(reports, info)
    /\ UNCHANGED <<sessVars, dataVars, gattVars>>

\* ------------------------------------------------------------ specifications
\* Peripheral::new
Init ==
    /\ pc = [t \in Threads |-> "idle"]
    /\ fd = [t \in Threads |-> 0]
    /\ stream = None
    /\ connection_chan = <<>>
    /\ backlog = 0
    /\ open_fds = {}
    /\ sockets = 0
    /\ scan_restarts = 0
    /\ cmds = 0
    /\ last_ret = [op |-> "none", val |-> "none", rep |-> FALSE]
    /\ message_queue = <<>>
    /\ arrivals = 0
    /\ delivered = <<>>
    /\ evt = [st |-> "running", data |-> NoData]
    /\ pdus = <<>>
    /\ pending = <<>>
    /\ characteristics = {}
    /\ disc_end = 0
    /\ properties = [discovery_count |-> 0, address_type |-> "Public",
                     has_scan_response |-> FALSE, local_name |-> NoneOpt,
                     tx_power_level |-> NoneOpt, manufacturer_data |-> NoneOpt]
    /\ reports = <<>>

\* connect() and disconnect() on the threads T, with the setup outcomes O,
\* the adapter's write results W and connection-complete events for H
Session(T, O, W, H) ==
    \/ \E t \in T : ConnectBegin(t)
    \/ \E t \in T : ConnectReturn(t)
    \/ \E t \in T, o \in O : ConnectSocket(t, o)
    \/ \E t \in T : ConnectWait(t)
    \/ \E t \in T : DisconnectBegin(t)
    \/ \E t \in T, w \in W : DisconnectBody(t, w)
    \/ \E h \in H : HandleConnComplete(h)

\* the session and the data packets of the connect race
Next ==
    \/ Session({1}, SetupOutcomes, BOOLEAN, Handles)
    \/ \E h \in Handles : HandleACLData(h, Notification)

Spec == Init /\ [][Next]_vars

\* the session on two threads, is_connected() and request()
SessNext ==
    \/ Session(Threads, SetupOutcomes, BOOLEAN, Handles)
    \/ \E t \in Threads : IsConnected(t)
    \/ \E t \in Threads, c \in OneChar : Request(t, c)

SessSpec == Init /\ [][SessNext]_vars

\* the calls that need a Connection
ApiCalls ==
    \/ \E c \in OneChar : Request(1, c)
    \/ \E c \in OneChar, sent \in BOOLEAN : Command(1, c, sent)
    \/ \E c \in OneChar : Subscribe(1, c)
    \/ \E c \in OneChar : Unsubscribe(1, c)
    \/ DiscoverCharacteristics(1)
    \/ \E r \in {<<1, 40>>} : DiscoverInRange(1, r[1], r[2])

\* a connected session (its setup and its disconnect command succeed) and the
\* calls that need a Connection
ApiNext ==
    \/ Session({1}, {"ok"}, {TRUE}, {1})
    \/ ApiCalls

ApiSpec == Init /\ [][ApiNext]_vars

\* the session, discovery and the peripheral's responses
DiscNext ==
    \/ Session({1}, SetupOk, {TRUE}, {1})
    \/ DiscoverCharacteristics(1)
    \/ \E r \in DiscRanges : DiscoverInRange(1, r[1], r[2])
    \/ HandleACLData(1, Response(0))

DiscSpec == Init /\ [][DiscNext]_vars

\* one connect(), subscribe / unsubscribe and the peripheral's
\* client-configuration responses to the requests that are outstanding
SubNext ==
    \/ ~stream.some /\ ConnectBegin(1)
    \/ ConnectSocket(1, "ok")
    \/ ConnectWait(1)
    \/ HandleConnComplete(1)
    \/ \E c \in SubChars : Subscribe(1, c)
    \/ \E c \in SubChars : Unsubscribe(1, c)
    \/ \E a \in DescHandles, v \in DescValues :
            pending # <<>> /\ HandleACLData(1, ConfigResponse(a, v))

SubSpec == Init /\ [][SubNext]_vars

\* what a data packet completes the oldest outstanding request with
Outcomes == {Response(0), Failure("malformed"), Failure("socket_error")}

\* a session with discovery and subscription, whose requests complete with a
\* response, with a response that does not parse, or with an error
HandlerNext ==
    \/ ~stream.some /\ ConnectBegin(1)
    \/ ConnectSocket(1, "ok")
    \/ ConnectWait(1)
    \/ HandleConnComplete(1)
    \/ DisconnectBegin(1)
    \/ DisconnectBody(1, TRUE)
    \/ DiscoverCharacteristics(1)
    \/ \E c \in OneChar : Subscribe(1, c)
    \/ \E p \in Outcomes : HandleACLData(1, p)

HandlerSpec == Init /\ [][HandlerNext]_vars

\* connect(), a discovery, and data packets that carry the Connection's handle
\* or another one
RouteNext ==
    \/ ~stream.some /\ ConnectBegin(1)
    \/ ConnectSocket(1, "ok")
    \/ ConnectWait(1)
    \/ \E h \in Handles : HandleConnComplete(h)
    \/ DiscoverCharacteristics(1)
    \/ \E h \in Handles : HandleACLData(h, Response(0))

RouteSpec == Init /\ [][RouteNext]_vars

\* connect(), disconnect() and the data packets step by step at the lock of the
\* Connection slot, with a discovery whose handler issues follow-up requests
LockNext ==
    \/ \E op \in {"connect_call", "disconnect_call"} : WriteCall(1, op)
    \/ WriteAcquire(1)
    \/ ConnectReturn(1)
    \/ ConnectSocket(1, "ok")
    \/ ConnectWait(1)
    \/ DisconnectBody(1, TRUE)
    \/ HandleConnComplete(1)
    \/ DiscoverCharacteristics(2)
    \/ \E wf \in BOOLEAN : TryRead(1, Response(0), wf)
    \/ \E wf \in BOOLEAN : Deliver(wf)

LockSpec == Init /\ [][LockNext]_vars

\* one connect() and full discoveries run one after the other: the application
\* starts a discovery when no request is outstanding
RediscNext ==
    \/ ConnectBegin(1)
    \/ ConnectReturn(1)
    \/ ConnectSocket(1, "ok")
    \/ ConnectWait(1)
    \/ HandleConnComplete(1)
    \/ pending = <<>> /\ DiscoverCharacteristicsN(1, MaxRunPdus)
    \/ DataPacket(1, Response(0), MaxRunPackets, MaxRunPdus)

RediscSpec == Init /\ [][RediscNext]_vars

\* the advertising reports
AdvNext ==
    \E info \in [bdaddr_type : {0, 1}, evt_type : {0, 4}, data : AdvData] :
        HandleAdvertisingReport(info)

AdvSpec == Init /\ [][AdvNext]_vars

\* ------------------------------------------------------------ properties
\* C1: a data packet that arrived before the connection-complete event of a
\* connect() is, once that connect() has returned Ok with the packet's handle,
\* delivered to the Connection (not left in the replay queue), and no packet
\* is delivered twice.
C1_EarlyPacketDelivered ==
    /\ (~Connecting /\ stream.some) =>
            \A i \in DOMAIN message_queue :
                ~(message_queue[i].pre /\ message_queue[i].handle = stream.handle)
    /\ \A i, j \in DOMAIN delivered :
            i # j => delivered[i].id # delivered[j].id

\* C2: the packets reach the Connection in arrival order: of two delivered
\* packets the one received first is delivered first.
C2_ArrivalOrder ==
    \A i, j \in DOMAIN delivered : i < j => delivered[i].id < delivered[j].id

\* a step of handle_device_message on a data packet, and its appending the
\* packet to the replay queue
PacketStep == arrivals' = arrivals + 1

Queued ==
    /\ message_queue' # <<>>
    /\ SubSeq(message_queue', 1, Len(message_queue') - 1) = message_queue
    /\ message_queue'[Len(message_queue')].id = arrivals'

\* C3 as stated: every data packet received while there is no Connection is
\* appended to the replay queue.
C3_QueuedWithoutConnection ==
    [][(PacketStep /\ ~stream.some) => Queued]_vars

\* C3 amended: a data packet received while the slot is exclusively locked (a
\* connect() or disconnect() holds it, or panicked holding it) is appended to
\* the replay queue and not delivered; one received while the slot is
\* unlocked and empty is neither queued nor delivered.
C3_QueuedWhileLocked ==
    [][PacketStep =>
         IF ~try_read_ok THEN Queued /\ delivered' = delivered
         ELSE ~stream.some => (message_queue' = message_queue
                               /\ delivered' = delivered)]_vars

C3_Witness == ~stream.some /\ message_queue # <<>> /\ arrivals > Len(message_queue)

\* C4: connect() called while a Connection exists returns Ok and changes
\* neither the Connection nor the sockets, the handoff channel or the scan.
C4_ConnectIdempotent ==
    [][\A t \in Threads :
         /\ (stream.some /\ pc[t] = "idle" /\ pc'[t] = "connect_locked") =>
                UNCHANGED <<stream, open_fds, sockets, fd, connection_chan,
                            scan_restarts, cmds, last_ret>>
         /\ (stream.some /\ pc[t] = "connect_locked" /\ pc'[t] # pc[t]) =>
                /\ pc'[t] = "idle"
                /\ last_ret'.op = "connect" /\ last_ret'.val = "Ok"
                /\ UNCHANGED <<stream, open_fds, sockets, fd, connection_chan,
                               scan_restarts, cmds>>]_vars

C4_Witness ==
    /\ last_ret = [op |-> "connect", val |-> "Ok", rep |-> TRUE]
    /\ stream.some /\ sockets = 1

\* C5: a disconnect() that directly follows a disconnect() that returned Ok
\* returns Ok, writes no disconnect command and leaves the slot empty.
C5_DisconnectIdempotent ==
    [][\A t \in Threads :
         (/\ last_ret.op = "disconnect" /\ last_ret.val = "Ok"
          /\ pc[t] = "disconnect_locked" /\ pc'[t] # pc[t]) =>
            /\ pc'[t] = "idle"
            /\ last_ret'.op = "disconnect" /\ last_ret'.val = "Ok"
            /\ cmds' = cmds
            /\ ~stream.some /\ ~stream'.some]_vars

C5_Witness ==
    /\ last_ret = [op |-> "disconnect", val |-> "Ok", rep |-> TRUE]
    /\ cmds = 1

\* the calls that need a Connection
CallOps == {"request", "command", "subscribe", "unsubscribe",
            "discover_characteristics", "discover_characteristics_in_range"}

RequestStep == \E t \in Threads, c \in OneChar : Request(t, c)

\* C6: a connect() whose wait finds no connection-complete event returns
\* TimedOut with the slot empty, and a request that follows it reports
\* NotConnected.
C6_TimeoutLeavesNoConnection ==
    [][/\ \A t \in Threads :
            (pc[t] = "connect_wait" /\ connection_chan = <<>> /\ pc'[t] # pc[t]) =>
                /\ pc'[t] = "idle"
                /\ last_ret'.op = "connect" /\ last_ret'.val = "TimedOut"
                /\ ~stream'.some
       /\ (last_ret.op = "connect" /\ last_ret.val = "TimedOut" /\ RequestStep) =>
            (last_ret'.op = "request" /\ last_ret'.val = "NotConnected")]_vars

C6_Witness ==
    /\ last_ret.op = "connect" /\ last_ret.val = "TimedOut"
    /\ ~stream.some /\ sockets = 1

\* C7: is_connected() answers false whenever the slot is empty.
C7_IsConnectedReportsSlot ==
    (last_ret.op = "is_connected" /\ ~stream.some) => last_ret.val = "false"

\* C8: each call that needs a Connection, made while the slot is empty,
\* returns NotConnected (command() returns too), hands no PDU to the
\* Connection and leaves the characteristic set as it was.
C8_NotConnected ==
    [][(~stream.some /\ ApiCalls) =>
         /\ last_ret'.op \in CallOps /\ last_ret'.val = "NotConnected"
         /\ pc' = pc
         /\ UNCHANGED <<pdus, pending, characteristics, stream>>]_vars

C8_Witness ==
    /\ last_ret = [op |-> "command", val |-> "NotConnected", rep |-> FALSE]
    /\ ~stream.some /\ sockets = 1 /\ cmds = 1 /\ pdus # <<>>

\* all the typed fields of the reports rs, oldest first
RECURSIVE AllData(_)
AllData(rs) == IF rs = <<>> THEN <<>> ELSE Head(rs).data \o AllData(Tail(rs))

\* the value of the most recent field of type t in the reports rs
LastSpecified(rs, t) ==
    LET ds == AllData(rs)
        at == {i \in DOMAIN ds : ds[i].t = t}
    IN  IF at = {} THEN NoneOpt
        ELSE SomeOpt(ds[CHOOSE i \in at : \A j \in at : j <= i].v)

\* C9: discovery_count is the number of reports processed, each optional
\* field is the value of the most recent report that specified it, and
\* has_scan_response is set exactly if some report was a scan response.
C9_PropertiesMerge ==
    /\ properties.discovery_count = Len(reports)
    /\ properties.local_name = LastSpecified(reports, "LocalName")
    /\ properties.tx_power_level = LastSpecified(reports, "TxPowerLevel")
    /\ properties.manufacturer_data = LastSpecified(reports, "ManufacturerSpecific")
    /\ properties.has_scan_response = (\E i \in DOMAIN reports : reports[i].evt_type = 4)

C9_Witness ==
    /\ Len(reports) = 2
    /\ reports[1].evt_type = 4 /\ reports[2].evt_type = 0
    /\ reports[1].data = <<[t |-> "LocalName", v |-> 1]>>
    /\ reports[2].data = <<[t |-> "TxPowerLevel", v |-> 7]>>
    /\ properties.local_name = SomeOpt(1)
    /\ properties.has_scan_response

\* a discovery was asked for and none of its requests is outstanding
DiscoveryDone ==
    /\ disc_end # 0
    /\ stream.some
    /\ \A i \in DOMAIN pending : pending[i].kind # "disc"
    /\ characteristics # {}

\* C10: once every discovery response is processed, each characteristic ends
\* one below the next one's start, the topmost ends at the end of the
\* requested range, and none starts above its end.
C10_EndHandles ==
    DiscoveryDone =>
        \A c \in characteristics :
            /\ c.start_handle <= c.end_handle
            /\ LET above == {d \in characteristics : d.start_handle > c.start_handle}
               IN IF above = {} THEN c.end_handle = disc_end
                  ELSE \E d \in above :
                        /\ \A e \in above : d.start_handle <= e.start_handle
                        /\ c.end_handle = d.start_handle - 1

\* the characteristic set a full discovery of Declarations is to produce
FullDiscovery ==
    { [start_handle |-> 16, end_handle |-> 31, value_handle |-> 17,
       properties |-> {"NOTIFY"}],
      [start_handle |-> 32, end_handle |-> 47, value_handle |-> 33,
       properties |-> {"INDICATE"}],
      [start_handle |-> 48, end_handle |-> MaxHandle, value_handle |-> 49,
       properties |-> {"NOTIFY", "INDICATE"}] }

\* C11: full discoveries run one after the other leave the same set as the
\* first one: whenever no discovery request is outstanding the characteristic
\* set is empty or the three ranges ending at 0x001F, 0x002F and 0xFFFF, and
\* at no time do two entries share a start handle.
C11_DiscoveryIdempotent ==
    /\ (stream.some /\ pending = <<>>) =>
            characteristics \in {{}, FullDiscovery}
    /\ \A c, d \in characteristics :
            c.start_handle = d.start_handle => c = d

\* C12: an unsubscribe() that directly follows a subscribe() on the same
\* characteristic, before any response arrived, does not send its descriptor
\* read yet: the second read is not sent before the first write.
C12_SecondReadAfterFirstWrite ==
    [][\A c \in SubChars :
         (/\ last_ret.op = "subscribe" /\ last_ret.val = "Ok"
          /\ Len(pending) = 1
          /\ pending[1].kind = "notify" /\ pending[1].enable /\ pending[1].char = c
          /\ Unsubscribe(1, c))
            => pdus' = pdus]_vars

\* the bits set in the 16-bit value v
Bits(v) == {i \in 0..15 : (v \div (2 ^ i)) % 2 = 1}

\* the bit subscribe / unsubscribe is to change
ConfigBit(props) ==
    IF "NOTIFY" \in props THEN {0}
    ELSE IF "INDICATE" \in props THEN {1}
    ELSE {}

\* C15: when the response to a descriptor read reaches the Connection (the
\* slot is not locked and nothing waits in the replay queue), one write request is
\* sent to the handle the response names, and its value is the value read
\* with bit 0 (NOTIFY), else bit 1 (INDICATE), else no bit, set on subscribe
\* and cleared on unsubscribe, all other bits as read.
C15_WriteBack ==
    [][\A a \in DescHandles, v \in DescValues :
         (/\ stream.some /\ try_read_ok /\ message_queue = <<>>
          /\ pending # <<>> /\ pending[1].kind = "notify"
          /\ HandleACLData(1, ConfigResponse(a, v)))
            => /\ Len(pdus') = Len(pdus) + 1
               /\ SubSeq(pdus', 1, Len(pdus)) = pdus
               /\ LET w == pdus'[Len(pdus')]
                      h == pending[1]
                  IN /\ w.op = "WRITE_REQ" /\ w.handle = a
                     /\ w.value \in 0..65535
                     /\ Bits(w.value) =
                            IF h.enable
                            THEN Bits(v) \cup ConfigBit(h.char.properties)
                            ELSE Bits(v) \ ConfigBit(h.char.properties)]_vars

C15_Witness ==
    \E i \in DOMAIN pdus :
        /\ i > 1
        /\ pdus[i].op = "WRITE_REQ" /\ pdus[i].handle = 35 /\ pdus[i].value = 65534
        /\ pdus[i - 1].op = "READ_BY_TYPE_REQ" /\ pdus[i - 1].handle = 32

\* C13: the connect() calls of one Session take turns: at most one thread is
\* between its socket setup and its return, no connect() holds a socket while
\* a Connection exists, and a connect() that gets the slot after another
\* connect() succeeded returns Ok with the Connection and the sockets as they
\* were.
C13_ConnectSerialized ==
    [][/\ Cardinality({t \in Threads : pc'[t] \in WritePcs}) <= 1
       /\ stream'.some => \A t \in Threads : pc'[t] # "connect_wait" /\ fd'[t] = 0
       /\ \A t \in Threads :
            (/\ last_ret.op = "connect" /\ last_ret.val = "Ok"
             /\ pc[t] = "connect_locked" /\ pc'[t] # pc[t])
               => /\ last_ret' = [op |-> "connect", val |-> "Ok", rep |-> TRUE]
                  /\ UNCHANGED <<stream, sockets, open_fds>>]_vars

C13_Witness ==
    /\ last_ret = [op |-> "connect", val |-> "Ok", rep |-> TRUE]
    /\ stream.some /\ open_fds = {stream.fd}
    /\ \A t \in Threads : pc[t] = "idle"

\* C14: once no connect() is in progress, every open socket belongs to the
\* Connection in the slot: a connect() that returned an error left none open.
C14_NoSocketLeak ==
    (\A t \in Threads : pc[t] = "idle") =>
        open_fds \subseteq (IF stream.some THEN {stream.fd} ELSE {})

\* C19: the connection-complete event a connect() builds its Connection from
\* arrived after that connect() issued its socket connect: none was waiting
\* in the channel at that moment.
C19_FreshHandle ==
    [][\A t \in Threads :
         (pc[t] = "connect_wait" /\ ~stream.some /\ stream'.some) => backlog = 0]_vars

\* C20: a disconnect() whose command the adapter fails to write returns the
\* error and changes nothing: the Connection and its socket stay, no command
\* is counted; a disconnect() whose command is written discards the
\* Connection, also after such a failure.
C20_FailedDisconnectKeepsConnection ==
    [][\A t \in Threads :
         /\ (stream.some /\ DisconnectBody(t, FALSE)) =>
                /\ last_ret'.op = "disconnect" /\ last_ret'.val = "SysErr"
                /\ UNCHANGED <<stream, open_fds, cmds, pending, connection_chan>>
                /\ stream.fd \in open_fds'
         /\ (stream.some /\ DisconnectBody(t, TRUE)) =>
                /\ last_ret'.op = "disconnect" /\ last_ret'.val = "Ok"
                /\ cmds' = cmds + 1
                /\ ~stream'.some]_vars

C20_Witness ==
    /\ last_ret.op = "disconnect" /\ last_ret.val = "SysErr"
    /\ stream.some /\ stream.fd \in open_fds /\ cmds = 0 /\ sockets = 1

\* C16: no completion of a request, be it an error result or a response that
\* does not parse, panics the event-delivery thread: handle_device_message
\* returns normally.
C16_HandlersNeverPanic == evt.st # "panicked"

\* C17: every packet passed to the Connection's receive carries the
\* Connection's handle, and a packet with another handle, arriving while no
\* packet with the Connection's handle waits in the replay queue, changes
\* neither the receive log nor the requests, the characteristic set or the
\* Properties.
C17_OwnHandleOnly ==
    [][/\ \A i \in DOMAIN delivered' : delivered'[i].handle = delivered'[i].conn
       /\ \A h \in Handles :
            (/\ stream.some /\ h # stream.handle
             /\ \A i \in DOMAIN message_queue :
                    message_queue[i].handle # stream.handle
             /\ HandleACLData(h, Response(0)))
               => UNCHANGED <<delivered, gattVars, properties>>]_vars

C17_Witness ==
    /\ stream.some /\ message_queue = <<>>
    /\ arrivals = 3 /\ Len(delivered) = 1 /\ delivered[1].id = 2
    /\ characteristics # {}

\* C18: the event-delivery thread never waits for the lock of the Connection
\* slot: it is never stopped inside a handler's follow-up request behind a
\* connect() or disconnect() that waits for exclusive access.
C18_EventThreadNeverBlocked == evt.st # "blocked"

====
